---- MODULE Spec2Model ----
(***************************************************************************)
(* Java code analyzer service: the two server variants of the repository   *)
(* (src/server.js and src/unnamed/part_000), their POST /api/analyze and   *)
(* POST /api/analyze/demo handlers, the response normalizer                *)
(* enhanceAnalysisResult and the heuristic estimateCyclomaticComplexity,   *)
(* several invocations of the analyze handler at the same time, the        *)
(* streaming handler POST /api/analyze/quick and the history list of the   *)
(* browser page (saveToHistory, clearHistory) with its analyse button      *)
(* (analyzeCode, showLoading).                                             *)
(*                                                                         *)
(* Strings are modelled by what the handlers read of them:                 *)
(*  - the submitted code is a run-length encoded string, a sequence of     *)
(*    runs [c |-> character, n |-> repetitions], so that texts of 10000    *)
(*    and 10001 characters are ordinary values;                            *)
(*  - the model's reply text is a sequence of segments: prose without      *)
(*    braces ("txt"), a stray "{" or "}", a complete JSON object ("obj",   *)
(*    with its parsed value) or a JSON literal such as null ("lit");       *)
(*  - the text given to estimateCyclomaticComplexity is a sequence of      *)
(*    one-character strings.                                               *)
(***************************************************************************)
EXTENDS Integers, Sequences, FiniteSets, TLC

VARIABLES
    apiKey,     \* DEEPSEEK_API_KEY is set (process.env), fixed at start-up
    upstream,   \* what the LLM endpoint answers to the 1st, 2nd, ... call
    route,      \* the handler serving the request, "none" before it arrives
    body,       \* req.body of the request
    pc,         \* "idle", "await" (suspended in await axios.post), "done"
    calls,      \* number of outbound axios.post calls made
    waits,      \* number of timer sleeps taken between outbound calls
    aiText,     \* response.data of the settled outbound call
    responses,  \* the HTTP responses sent for the request, in order
    text,       \* argument of estimateCyclomaticComplexity
    cx,         \* values returned by the calls of estimateCyclomaticComplexity
    requests,   \* concurrent POST /api/analyze invocations, each with its locals
    analysisHistory,  \* the browser's in-memory history list
    localStorage,     \* the item 'javaAnalysisHistory' of the browser's storage
    clock,      \* Date.now() of the browser
    saves,      \* number of saveToHistory calls made
    savedCode,  \* the code given to the latest saveToHistory call
    quickPc,    \* position of the /api/analyze/quick handler
    stream,     \* events the upstream stream has emitted, in order
    res,        \* the response of /api/analyze/quick
    analyzeBtn, \* the analyse button of the browser page
    invocations \* the calls of analyzeCode made so far, each with its position

concVars == <<requests>>
histVars == <<analysisHistory, localStorage, clock, saves, savedCode>>
quickVars == <<quickPc, stream, res>>
clientVars == <<analyzeBtn, invocations>>
analyzeVars == <<upstream, route, body, pc, calls, waits, aiText, responses>>
estVars == <<text, cx>>

vars == <<apiKey, analyzeVars, estVars, concVars, histVars, quickVars, clientVars>>

-----------------------------------------------------------------------------
(* Bounds of the model *)

\* outbound replies scripted per request (the spec's default attempt budget)
MaxAttempts == 3
\* longest issues list in a model reply
MaxIssues == 2
\* tokens of a text given to estimateCyclomaticComplexity
MaxToks == 3
\* repetitions of a short text, enough to pass the clamp of the heuristic
MaxRep == 25
\* POST /api/analyze requests in flight at the same time
MaxRequests == 2
\* saveToHistory calls in one browser session
MaxSaves == 2
\* clicks on the analyse button that reach the request
MaxClicks == 2
\* events emitted by the upstream stream of one /api/analyze/quick request
MaxEvents == 4

(* Program constants *)

\* server.js:53, part_000:56   code.length > 10000
MaxCodeLen == 10000
\* part_000:111   aiResponse.substring(0, 500)
ExcerptLen == 500
\* server.js:1122   analysisHistory.length > 50, slice(0, 50)
HistoryCap == 50
\* server.js:1115   code.substring(0, 500)
HistoryCodeLen == 500
\* server.js:341   Math.min(complexity, 50)
MaxComplexity == 50

Min(a, b) == IF a < b THEN a ELSE b
Max(a, b) == IF a > b THEN a ELSE b

RECURSIVE SumN(_, _)
\* sum of f[i] for i in 1..n
SumN(f, n) == IF n = 0 THEN 0 ELSE f[n] + SumN(f, n - 1)

-----------------------------------------------------------------------------
(* The submitted code: a run-length encoded string *)

Whitespace == {" ", "\n"}

Run(c, n) == [c |-> c, n |-> n]

\* code.length
StrLen(runs) == SumN([i \in 1..Len(runs) |-> runs[i].n], Len(runs))

RECURSIVE TrimStart(_)
TrimStart(runs) ==
    IF runs = <<>> THEN <<>>
    ELSE IF Head(runs).c \in Whitespace \/ Head(runs).n = 0 THEN TrimStart(Tail(runs))
    ELSE runs

RECURSIVE TrimEnd(_)
TrimEnd(runs) ==
    IF runs = <<>> THEN <<>>
    ELSE IF runs[Len(runs)].c \in Whitespace \/ runs[Len(runs)].n = 0
         THEN TrimEnd(SubSeq(runs, 1, Len(runs) - 1))
    ELSE runs

\* code.trim()
Trim(runs) == TrimEnd(TrimStart(runs))

\* code.split("\n").length
SplitLines(runs) ==
    1 + SumN([i \in 1..Len(runs) |-> IF runs[i].c = "\n" THEN runs[i].n ELSE 0], Len(runs))

\* req.body.code: undefined, or a string
NoCode == [defined |-> FALSE, runs |-> <<>>]
Str(runs) == [defined |-> TRUE, runs |-> runs]

\* !code : undefined and "" are falsy
Falsy(code) == ~code.defined \/ StrLen(code.runs) = 0

\* !code || code.trim().length === 0
IsEmptyCode(code) == Falsy(code) \/ StrLen(Trim(code.runs)) = 0

\* code.length > 10000
IsTooLong(code) == StrLen(code.runs) > MaxCodeLen

Codes ==
    { NoCode,
      Str(<<>>),
      Str(<<Run(" ", 3)>>),
      Str(<<Run("a", 1)>>),
      Str(<<Run(" ", 1), Run("a", 2), Run("\n", 1), Run("a", 1), Run(" ", 1)>>),
      Str(<<Run("a", MaxCodeLen)>>),
      Str(<<Run("a", MaxCodeLen + 1)>>),
      Str(<<Run(" ", MaxCodeLen + 1)>>),
      Str(<<Run("a", MaxCodeLen - 2), Run("\n", 2)>>) }

\* req.body: {code, options?}; options is an object or absent
Bodies == [code : Codes, hasOptions : BOOLEAN]

-----------------------------------------------------------------------------
(* The AnalysisResult and the JSON values the model may return *)

\* severities an issue of a model reply may carry: the four levels, a level
\* in upper case, a word that is no level, "" (absent or empty) and "#num"
\* (a JSON number, which has no toLowerCase)
Severities == {"critical", "high", "medium", "low", "HIGH", "info", "", "#num"}

Counts(c, h, m, l, t) == [critical |-> c, high |-> h, medium |-> m, low |-> l, total |-> t]

\* an issue; sec: its title or description contains the word the security
\* estimate looks for
Issue(sev, desc) == [severity |-> sev, description |-> desc, sec |-> FALSE]
SecIssue(sev) == [severity |-> sev, description |-> <<>>, sec |-> TRUE]

\* a field of result.metrics: supplied with value v, or absent
Given(v) == [has |-> TRUE, v |-> v]
Absent == [has |-> FALSE, v |-> 0]
Metrics(l, c, m, s) == [lines |-> l, complexity |-> c, maintainability |-> m, security |-> s]
NoMetrics == Metrics(Absent, Absent, Absent, Absent)

\* a parsed JSON value: an object with optional summary and issues, or a
\* non-object literal (isObject = FALSE)
Doc(hasS, s, hasI, is) ==
    [isObject |-> TRUE, hasSummary |-> hasS, summary |-> s, hasIssues |-> hasI, issues |-> is,
     metrics |-> NoMetrics]
NullDoc ==
    [isObject |-> FALSE, hasSummary |-> FALSE, summary |-> Counts(0, 0, 0, 0, 0),
     hasIssues |-> FALSE, issues |-> <<>>, metrics |-> NoMetrics]
\* the object d with the metrics m
WithMetrics(d, m) == [d EXCEPT !.metrics = m]

IssueLists == UNION { [1..n -> {Issue(sv, <<>>) : sv \in Severities}] : n \in 0..MaxIssues }

\* the summaries a model reply may claim: none, a consistent-looking one, an
\* inflated one
ClaimedSummaries ==
    { [has |-> FALSE, s |-> Counts(0, 0, 0, 0, 0)],
      [has |-> TRUE, s |-> Counts(0, 1, 0, 0, 1)],
      [has |-> TRUE, s |-> Counts(2, 0, 0, 1, 7)] }

\* the metrics a model reply may carry: all in range, some zero or out of
\* range, only one field
SuppliedMetrics ==
    { Metrics(Given(7), Given(3), Given(90), Given(70)),
      Metrics(Given(0), Given(3), Given(150), Given(0)),
      Metrics(Absent, Given(60), Absent, Absent) }

\* the issues of the replies that carry metrics
MetricIssueLists ==
    { <<>>, <<SecIssue("high")>>, <<Issue("low", <<>>), SecIssue("critical")>> }

Docs ==
    { Doc(cs.has, cs.s, TRUE, is) : cs \in ClaimedSummaries, is \in IssueLists }
    \cup { Doc(cs.has, cs.s, FALSE, <<>>) : cs \in ClaimedSummaries }
    \cup { Doc(FALSE, Counts(0, 0, 0, 0, 0), TRUE, is) : is \in MetricIssueLists }
    \cup { WithMetrics(Doc(FALSE, Counts(0, 0, 0, 0, 0), TRUE, is), m) :
             is \in MetricIssueLists, m \in SuppliedMetrics }

\* issue.severity?.toLowerCase()
ToLowerCase(sev) == IF sev = "HIGH" THEN "high" ELSE sev

\* issue.severity?.toLowerCase() || 'low'
SeverityOf(issue) ==
    IF ToLowerCase(issue.severity) = "" THEN "low" ELSE ToLowerCase(issue.severity)

\* severityCounts[level] after the forEach: an issue is counted only when its
\* severity is a key of severityCounts
SeverityCount(issues, level) ==
    Cardinality({ i \in 1..Len(issues) : SeverityOf(issues[i]) = level })

-----------------------------------------------------------------------------
(* The model's reply text *)

Txt(n)  == [t |-> "txt",   n |-> n, doc |-> NullDoc]
Open    == [t |-> "open",  n |-> 1, doc |-> NullDoc]
Close   == [t |-> "close", n |-> 1, doc |-> NullDoc]
Lit     == [t |-> "lit",   n |-> 4, doc |-> NullDoc]
Obj(d)  == [t |-> "obj",   n |-> 40, doc |-> d]

RECURSIVE Substring0(_, _)
\* aiResponse.substring(0, k): a segment cut short is no longer what it was
Substring0(s, k) ==
    IF s = <<>> \/ k = 0 THEN <<>>
    ELSE IF Head(s).n <= k THEN <<Head(s)>> \o Substring0(Tail(s), k - Head(s).n)
    ELSE <<[t |-> "part", n |-> k, doc |-> NullDoc]>>

\* JSON.parse(s) does not throw: s is one JSON value
JsonParses(s) == Len(s) = 1 /\ s[1].t \in {"obj", "lit"}
\* JSON.parse(s)
JsonParse(s) == s[1].doc

\* s.match(/\{[\s\S]*\}/): from the first "{" to the last "}" of s
HasOpen(seg)  == seg.t \in {"open", "obj"}
HasClose(seg) == seg.t \in {"close", "obj"}
FirstOpen(s) == CHOOSE i \in 1..Len(s) : HasOpen(s[i]) /\ \A j \in 1..(i - 1) : ~HasOpen(s[j])
LastClose(s) == CHOOSE i \in 1..Len(s) : HasClose(s[i]) /\ \A j \in (i + 1)..Len(s) : ~HasClose(s[j])
JsonMatch(s) ==
    IF /\ \E i \in 1..Len(s) : HasOpen(s[i])
       /\ \E i \in 1..Len(s) : HasClose(s[i])
       /\ FirstOpen(s) <= LastClose(s)
    THEN [found |-> TRUE, str |-> SubSeq(s, FirstOpen(s), LastClose(s))]
    ELSE [found |-> FALSE, str |-> <<>>]

\* a few objects for the replies that wrap an object in other text
SmallDocs ==
    { Doc(FALSE, Counts(0, 0, 0, 0, 0), TRUE, <<Issue("high", <<>>)>>),
      Doc(TRUE, Counts(2, 0, 0, 1, 7), TRUE, <<Issue("info", <<>>)>>) }

\* response.data of a 2xx reply: choices[0].message.content, or no choices
Content(s) == [hasChoices |-> TRUE, content |-> s]
NoChoices == [hasChoices |-> FALSE, content |-> <<>>]

ModelTexts ==
    { <<Obj(d)>> : d \in Docs }
    \cup { <<Lit>>, <<Txt(3)>>, <<Txt(ExcerptLen + 100)>>, <<Open, Txt(3)>>,
           <<Txt(3), Close, Open>> }
    \cup { <<Txt(3), Obj(d), Txt(3)>> : d \in SmallDocs }
    \cup { <<Obj(d), Txt(3), Close>> : d \in SmallDocs }
    \cup { <<Obj(d), Txt(ExcerptLen), Obj(d)>> : d \in SmallDocs }

ReplyData == { Content(s) : s \in ModelTexts } \cup { NoChoices }

\* what the LLM endpoint may answer: an HTTP status, or no answer at all
Replies == {"200", "401", "403", "429", "500", "503", "timeout", "network"}

\* the replies to the successive calls of one request: a first reply repeated
\* k times, then a second one for the calls that follow
Scripts ==
    { [i \in 1..MaxAttempts |-> IF i <= k THEN f ELSE g] :
        k \in 0..MaxAttempts, f \in Replies, g \in Replies }

-----------------------------------------------------------------------------
(* src/server.js: estimateCyclomaticComplexity, on a text of characters *)

\* a decision pattern: a literal word, then \s* ("star"), \s+ ("plus") or
\* nothing ("none"), then "(" when paren
Pattern(word, ws, paren) == [word |-> word, ws |-> ws, paren |-> paren]

\* lines 323-332
decisionPatterns ==
    << Pattern(<<"i", "f">>, "star", TRUE),
       Pattern(<<"f", "o", "r">>, "star", TRUE),
       Pattern(<<"w", "h", "i", "l", "e">>, "star", TRUE),
       Pattern(<<"c", "a", "t", "c", "h">>, "star", TRUE),
       Pattern(<<"c", "a", "s", "e">>, "plus", FALSE),
       Pattern(<<"&", "&">>, "none", FALSE),
       Pattern(<<"|", "|">>, "none", FALSE),
       Pattern(<<"?">>, "none", FALSE) >>

\* the word w is at position i of s
WordAt(s, i, w) ==
    /\ i + Len(w) - 1 <= Len(s)
    /\ \A k \in 1..Len(w) : s[i + k - 1] = w[k]

RECURSIVE WsRun(_, _)
\* number of whitespace characters of s from position j on (greedy \s*)
WsRun(s, j) ==
    IF j > Len(s) THEN 0
    ELSE IF s[j] \in Whitespace THEN 1 + WsRun(s, j + 1)
    ELSE 0

\* position of the last character of the match of p that starts at i, 0 if
\* p does not match there
MatchEnd(s, i, p) ==
    IF ~WordAt(s, i, p.word) THEN 0
    ELSE LET j == i + Len(p.word)
             w == IF p.ws = "none" THEN 0 ELSE WsRun(s, j)
         IN  IF p.ws = "plus" /\ w = 0 THEN 0
             ELSE IF ~p.paren THEN j + w - 1
             ELSE IF j + w <= Len(s) /\ s[j + w] = "(" THEN j + w
             ELSE 0

RECURSIVE MatchCount(_, _, _)
\* code.match(pattern).length for a /g pattern: the matches are taken left
\* to right, each search resuming after the previous match
MatchCount(s, i, p) ==
    IF i > Len(s) THEN 0
    ELSE IF MatchEnd(s, i, p) > 0 THEN 1 + MatchCount(s, MatchEnd(s, i, p) + 1, p)
    ELSE MatchCount(s, i + 1, p)

\* the heuristic without its upper clamp
estimateUnclamped(code) ==
    1 + SumN([k \in 1..Len(decisionPatterns) |-> MatchCount(code, 1, decisionPatterns[k])],
             Len(decisionPatterns))

\* lines 319-342
estimateCyclomaticComplexity(code) ==
    LET complexity ==
            1 + SumN([k \in 1..Len(decisionPatterns) |-> MatchCount(code, 1, decisionPatterns[k])],
                     Len(decisionPatterns))
    IN  Max(1, Min(complexity, MaxComplexity))

-----------------------------------------------------------------------------
(* src/server.js: enhanceAnalysisResult *)

\* repetitions of a character that the decision patterns can tell apart: no
\* pattern holds a letter, a blank or a parenthesis twice in a row, so a longer
\* run of one of them matches as a run of two does
RunCap(c, n) == IF c \in {"&", "|", "?"} THEN n ELSE Min(n, 2)

RECURSIVE Chars(_)
\* the characters of a run-length string, as estimateCyclomaticComplexity
\* scans them
Chars(runs) ==
    IF runs = <<>> THEN <<>>
    ELSE [i \in 1..RunCap(Head(runs).c, Head(runs).n) |-> Head(runs).c] \o Chars(Tail(runs))

\* if (!result.metrics.f) result.metrics.f = estimate: an absent field and a
\* field of value 0 are both replaced
Backfill(field, estimate) == IF field.has /\ field.v # 0 THEN field ELSE Given(estimate)

\* lines 306-309: the issues whose title or description names security
securityIssues(issues) == Cardinality({ i \in 1..Len(issues) : issues[i].sec })

\* enhanceAnalysisResult(result, originalCode): [threw, doc]
enhanceAnalysisResult(result, code) ==
    IF ~result.isObject
    THEN [threw |-> TRUE, doc |-> result]
    ELSE LET summary == IF result.hasSummary THEN result.summary ELSE Counts(0, 0, 0, 0, 0)
             issues  == IF result.hasIssues THEN result.issues ELSE <<>>
             m       == result.metrics
         IN  IF \E i \in 1..Len(issues) : issues[i].severity = "#num"
             THEN [threw |-> TRUE, doc |-> result]
             ELSE [threw |-> FALSE,
                   doc |-> WithMetrics(
                       Doc(TRUE,
                           [summary EXCEPT !.total = Len(issues),
                                           !.critical = SeverityCount(issues, "critical"),
                                           !.high = SeverityCount(issues, "high"),
                                           !.medium = SeverityCount(issues, "medium"),
                                           !.low = SeverityCount(issues, "low")],
                           TRUE, issues),
                       Metrics(
                           Backfill(m.lines, SplitLines(code.runs)),
                           Backfill(m.complexity, estimateCyclomaticComplexity(Chars(code.runs))),
                           Backfill(m.maintainability, Max(50, 100 - Min(Len(issues) * 5, 50))),
                           Backfill(m.security, Max(0, 100 - securityIssues(issues) * 10))))]

-----------------------------------------------------------------------------
(* HTTP responses *)

NoData == NullDoc

\* res.status(status).json({success: false, error, details})
Failure(status, error, details) ==
    [status |-> status, success |-> FALSE, error |-> error, details |-> details,
     hasData |-> FALSE, data |-> NoData]

\* res.json({success: true, data, ...})
Success(data) ==
    [status |-> 200, success |-> TRUE, error |-> "", details |-> "",
     hasData |-> TRUE, data |-> data]

\* error.response?.status of a rejected axios.post
HasResponse(reply) == reply \notin {"timeout", "network"}

-----------------------------------------------------------------------------
(* src/server.js: POST /api/analyze *)

\* lines 36-61: the checks made before the outbound call; "" when they pass.
\* buildAnalysisPrompt reads options.security, which throws without options.
ServerReject(key, b) ==
    IF ~key THEN Failure(500, "no_key", "")
    ELSE IF IsEmptyCode(b.code) THEN Failure(400, "empty_code", "")
    ELSE IF IsTooLong(b.code) THEN Failure(400, "too_long", "")
    ELSE IF ~b.hasOptions THEN Failure(500, "analysis_failed", "type_error")
    ELSE Success(NoData)

ServerPasses(key, b) == ServerReject(key, b).success

\* lines 131-140: errorMessage of the catch block
ServerErrorMessage(reply) ==
    IF reply = "401" THEN "invalid_key"
    ELSE IF reply = "429" THEN "rate_limited"
    ELSE IF reply = "503" THEN "unavailable"
    ELSE "analysis_failed"

\* lines 127-147: the catch block always answers 500
ServerCatch(reply, details) == Failure(500, ServerErrorMessage(reply), details)

\* lines 91-125: the normalizer. JSON.parse and enhanceAnalysisResult share one
\* try; its catch retries on the substring matched by /\{[\s\S]*\}/ and throws
\* when that fails too.
ServerNormalize(data, code) ==
    IF ~data.hasChoices THEN ServerCatch("200", "type_error")
    ELSE LET whole == IF JsonParses(data.content)
                      THEN enhanceAnalysisResult(JsonParse(data.content), code)
                      ELSE [threw |-> TRUE, doc |-> NullDoc]
             m     == JsonMatch(data.content)
             part  == IF m.found /\ JsonParses(m.str)
                      THEN enhanceAnalysisResult(JsonParse(m.str), code)
                      ELSE [threw |-> TRUE, doc |-> NullDoc]
         IN  IF ~whole.threw THEN Success(whole.doc)
             ELSE IF ~part.threw THEN Success(part.doc)
             ELSE ServerCatch("200", "bad_format")

\* lines 64-147, once the outbound call has settled
ServerResponse(reply, data, code) ==
    IF reply = "200" THEN ServerNormalize(data, code)
    ELSE ServerCatch(reply, IF HasResponse(reply) THEN "response_data" ELSE "error_message")

-----------------------------------------------------------------------------
(* src/unnamed/part_000: POST /api/analyze *)

\* lines 36-61: the checks made before the outbound call
PartReject(key, b) ==
    IF IsEmptyCode(b.code) THEN Failure(400, "empty_code", "")
    ELSE IF ~key THEN Failure(500, "no_key", "")
    ELSE IF IsTooLong(b.code) THEN Failure(400, "too_long", "")
    ELSE Success(NoData)

PartPasses(key, b) == PartReject(key, b).success

\* lines 127-145: the catch block always answers 500
PartCatch(reply, threw) ==
    Failure(500,
            IF threw THEN "error"
            ELSE IF HasResponse(reply) THEN "api_error" ELSE "network_error",
            "error_message")

\* lines 100-124: the finding that wraps a reply which is not JSON
PartWrapped(content, code) ==
    WithMetrics(
        Doc(TRUE, Counts(0, 0, 0, 1, 1), TRUE, <<Issue("low", Substring0(content, ExcerptLen))>>),
        Metrics(Given(SplitLines(code.runs)), Given(5), Given(80), Given(85)))

\* lines 88-125: the parsed JSON is passed on as it is
PartNormalize(data, code) ==
    IF ~data.hasChoices THEN PartCatch("200", TRUE)
    ELSE IF JsonParses(data.content) THEN Success(JsonParse(data.content))
    ELSE Success(PartWrapped(data.content, code))

\* lines 66-145, once the outbound call has settled
PartResponse(reply, data, code) ==
    IF reply = "200" THEN PartNormalize(data, code) ELSE PartCatch(reply, FALSE)

-----------------------------------------------------------------------------
(* src/unnamed/part_000: POST /api/analyze/demo *)

\* lines 158-189: the canned result
DemoData(code) ==
    WithMetrics(
        Doc(TRUE, Counts(1, 2, 3, 4, 10), TRUE, <<Issue("high", <<>>), Issue("medium", <<>>)>>),
        Metrics(Given(SplitLines(code.runs)), Given(12), Given(75), Given(80)))

\* the demo handler with the validation of /api/analyze (trimmed code)
DemoResponseTrimmed(b) ==
    IF IsEmptyCode(b.code) THEN Failure(400, "empty_code", "") ELSE Success(DemoData(b.code))

\* lines 150-191
DemoResponse(b) ==
    IF Falsy(b.code) THEN Failure(400, "empty_code", "") ELSE Success(DemoData(b.code))

-----------------------------------------------------------------------------
(* The state before any request, save or stream event *)

Requests == 1..MaxRequests

\* an invocation of the handler that has not started: its locals are unset
IdleRequest ==
    [route |-> "none", body |-> [code |-> NoCode, hasOptions |-> FALSE], pc |-> "idle",
     reply |-> "none", data |-> NoChoices, responses |-> <<>>]

ConcIdle == requests = [r \in Requests |-> IdleRequest]

\* localStorage.getItem(key) of a key that was never set, or was removed
NoItem == [has |-> FALSE, v |-> <<>>]
\* the item after localStorage.setItem(key, JSON.stringify(list))
Item(list) == [has |-> TRUE, v |-> list]

HistIdle ==
    /\ analysisHistory = <<>>
    /\ localStorage = NoItem
    /\ clock = 0
    /\ saves = 0
    /\ savedCode = NoCode

\* a response on which nothing has been called yet
FreshResponse == [json |-> 0, chunks |-> <<>>, ends |-> 0, lateWrites |-> 0]

QuickIdle ==
    /\ quickPc = "idle"
    /\ stream = <<>>
    /\ res = FreshResponse

\* the page after DOMContentLoaded: the button enabled, analyzeCode not called
ClientIdle ==
    /\ analyzeBtn = [disabled |-> FALSE]
    /\ invocations = <<>>

-----------------------------------------------------------------------------
(* The handlers as steps of the event loop *)

Routes == {"server", "part", "demo"}
\* the routes of POST /api/analyze
Analyze == {"server", "part"}

Init ==
    /\ apiKey \in BOOLEAN
    /\ upstream \in Scripts
    /\ route = "none"
    /\ body = [code |-> NoCode, hasOptions |-> FALSE]
    /\ pc = "idle"
    /\ calls = 0
    /\ waits = 0
    /\ aiText = NoChoices
    /\ responses = <<>>
    /\ text = <<>>
    /\ cx = <<>>
    /\ ConcIdle
    /\ HistIdle
    /\ QuickIdle
    /\ ClientIdle

\* the handler whose validation sends its rejection without returning: the
\* rejection is sent and the handler goes on to the outbound call
AnalyzeServerStartFallingThrough ==
    /\ pc = "idle"
    /\ \E b \in Bodies :
        /\ route' = "server"
        /\ body' = b
        /\ responses' = IF ServerPasses(apiKey, b)
                        THEN responses
                        ELSE Append(responses, ServerReject(apiKey, b))
    /\ calls' = calls + 1
    /\ pc' = "await"
    /\ UNCHANGED <<apiKey, upstream, waits, aiText, text, cx, concVars, histVars, quickVars, clientVars>>

\* server.js lines 34-88: a request arrives; it is rejected, or axios.post is
\* called and the handler is suspended
AnalyzeServerStart ==
    /\ pc = "idle"
    /\ \E b \in Bodies :
        /\ route' = "server"
        /\ body' = b
        /\ IF ServerPasses(apiKey, b)
           THEN /\ calls' = calls + 1
                /\ pc' = "await"
                /\ UNCHANGED responses
           ELSE /\ responses' = Append(responses, ServerReject(apiKey, b))
                /\ pc' = "done"
                /\ UNCHANGED calls
    /\ UNCHANGED <<apiKey, upstream, waits, aiText, text, cx, concVars, histVars, quickVars, clientVars>>

\* the handler with a retry loop around the call: any failed call is repeated
\* after a sleep while attempts remain
ServerOnReplyRetrying(reply, data) ==
    IF reply # "200" /\ calls < MaxAttempts
    THEN /\ calls' = calls + 1
         /\ waits' = waits + 1
         /\ UNCHANGED <<aiText, responses, pc>>
    ELSE /\ aiText' = data
         /\ responses' = Append(responses, ServerResponse(reply, data, body.code))
         /\ pc' = "done"
         /\ UNCHANGED <<calls, waits>>

\* the state change of server.js lines 89-147 when the call has settled
ServerOnReply(reply, data) ==
    /\ aiText' = data
    /\ responses' = Append(responses, ServerResponse(reply, data, body.code))
    /\ pc' = "done"
    /\ UNCHANGED <<calls, waits>>

\* server.js lines 89-147: the outbound call settles
AnalyzeServerResume ==
    /\ pc = "await"
    /\ route = "server"
    /\ \E data \in (IF upstream[calls] = "200" THEN ReplyData ELSE {NoChoices}) :
        ServerOnReply(upstream[calls], data)
    /\ UNCHANGED <<apiKey, upstream, route, body, text, cx, concVars, histVars, quickVars, clientVars>>

\* part_000 lines 32-86
AnalyzePartStart ==
    /\ pc = "idle"
    /\ \E b \in Bodies :
        /\ route' = "part"
        /\ body' = b
        /\ IF PartPasses(apiKey, b)
           THEN /\ calls' = calls + 1
                /\ pc' = "await"
                /\ UNCHANGED responses
           ELSE /\ responses' = Append(responses, PartReject(apiKey, b))
                /\ pc' = "done"
                /\ UNCHANGED calls
    /\ UNCHANGED <<apiKey, upstream, waits, aiText, text, cx, concVars, histVars, quickVars, clientVars>>

\* the state change of part_000 lines 88-145 when the call has settled
PartOnReply(reply, data) ==
    /\ aiText' = data
    /\ responses' = Append(responses, PartResponse(reply, data, body.code))
    /\ pc' = "done"
    /\ UNCHANGED <<calls, waits>>

\* part_000 lines 88-145: the outbound call settles
AnalyzePartResume ==
    /\ pc = "await"
    /\ route = "part"
    /\ \E data \in (IF upstream[calls] = "200" THEN ReplyData ELSE {NoChoices}) :
        PartOnReply(upstream[calls], data)
    /\ UNCHANGED <<apiKey, upstream, route, body, text, cx, concVars, histVars, quickVars, clientVars>>

\* part_000 lines 149-192: the demo handler is synchronous
AnalyzeDemo ==
    /\ pc = "idle"
    /\ \E b \in Bodies :
        /\ route' = "demo"
        /\ body' = b
        /\ responses' = Append(responses, DemoResponse(b))
    /\ pc' = "done"
    /\ UNCHANGED <<apiKey, upstream, calls, waits, aiText, text, cx, concVars, histVars, quickVars, clientVars>>

Next ==
    \/ AnalyzeServerStart
    \/ AnalyzeServerResume
    \/ AnalyzePartStart
    \/ AnalyzePartResume
    \/ AnalyzeDemo

Spec == Init /\ [][Next]_vars

-----------------------------------------------------------------------------
(* estimateCyclomaticComplexity as a function of its text *)

Tokens ==
    { <<"i", "f">>, <<"f", "o", "r">>, <<"w", "h", "i", "l", "e">>,
      <<"c", "a", "t", "c", "h">>, <<"c", "a", "s", "e">>,
      <<"(">>, <<" ">>, <<"\n">>, <<"&">>, <<"|">>, <<"?">>, <<"x">> }

TokenSeqs(n) == UNION { [1..k -> Tokens] : k \in 0..n }

RECURSIVE Flatten(_)
Flatten(ts) == IF ts = <<>> THEN <<>> ELSE Head(ts) \o Flatten(Tail(ts))

RECURSIVE Repeat(_, _)
Repeat(s, r) == IF r = 0 THEN <<>> ELSE s \o Repeat(s, r - 1)

\* short texts, and texts of one or two one-character tokens repeated many
\* times
Texts ==
    { Flatten(ts) : ts \in TokenSeqs(MaxToks) }
    \cup { Repeat(Flatten(ts), r) :
             ts \in { q \in TokenSeqs(2) : \A k \in 1..Len(q) : Len(q[k]) = 1 },
             r \in {MaxRep - 1, MaxRep} }

InitEst ==
    /\ apiKey = FALSE
    /\ upstream \in { [i \in 1..MaxAttempts |-> "200"] }
    /\ route = "none"
    /\ body = [code |-> NoCode, hasOptions |-> FALSE]
    /\ pc = "idle"
    /\ calls = 0
    /\ waits = 0
    /\ aiText = NoChoices
    /\ responses = <<>>
    /\ text \in Texts
    /\ cx = <<>>
    /\ ConcIdle
    /\ HistIdle
    /\ QuickIdle
    /\ ClientIdle

\* one more call of estimateCyclomaticComplexity on the same text
EstimateCall ==
    /\ Len(cx) < 2
    /\ cx' = Append(cx, estimateCyclomaticComplexity(text))
    /\ UNCHANGED <<apiKey, upstream, route, body, pc, calls, waits, aiText, responses, text,
                   concVars, histVars, quickVars, clientVars>>

NextEst == EstimateCall

SpecEst == InitEst /\ [][NextEst]_vars

-----------------------------------------------------------------------------
(* Several invocations of the POST /api/analyze handler at the same time *)

\* requests of different validity and different code
ConcBodies ==
    { [code |-> Str(<<>>), hasOptions |-> TRUE],
      [code |-> Str(<<Run("a", 1)>>), hasOptions |-> TRUE],
      [code |-> Str(<<Run("a", 1)>>), hasOptions |-> FALSE],
      [code |-> Str(<<Run("a", 2), Run("\n", 1), Run("|", 2)>>), hasOptions |-> TRUE] }

ConcReplies == {"200", "429"}

ConcData == { Content(<<Obj(d)>>) : d \in SmallDocs } \cup { Content(<<Txt(3)>>) }

\* the code every invocation reads when it declares it at module level: the
\* code of the request that arrived last
SharedCode(r) ==
    requests[CHOOSE q \in Requests :
                 /\ requests[q].pc # "idle"
                 /\ \A p \in Requests : p > q => requests[p].pc = "idle"].body.code

\* const { code, options, fileName } = req.body: a local of the invocation
CodeOf(r) == requests[r].body.code

InitConc ==
    /\ apiKey \in BOOLEAN
    /\ upstream \in { [i \in 1..MaxAttempts |-> "200"] }
    /\ route = "none"
    /\ body = [code |-> NoCode, hasOptions |-> FALSE]
    /\ pc = "idle"
    /\ calls = 0
    /\ waits = 0
    /\ aiText = NoChoices
    /\ responses = <<>>
    /\ text = <<>>
    /\ cx = <<>>
    /\ ConcIdle
    /\ HistIdle
    /\ QuickIdle
    /\ ClientIdle

\* the r-th request arrives at one of the two variants: it is rejected, or the
\* outbound call is made and the invocation is suspended
ConcStart(r) ==
    /\ requests[r].pc = "idle"
    /\ \A q \in Requests : q < r => requests[q].pc # "idle"
    /\ \E rt \in Analyze, b \in ConcBodies :
        LET passes == IF rt = "server" THEN ServerPasses(apiKey, b) ELSE PartPasses(apiKey, b)
            reject == IF rt = "server" THEN ServerReject(apiKey, b) ELSE PartReject(apiKey, b)
        IN  requests' = [requests EXCEPT ![r] =
                [@ EXCEPT !.route = rt, !.body = b,
                          !.pc = IF passes THEN "await" ELSE "done",
                          !.responses = IF passes THEN <<>> ELSE <<reject>>]]
    /\ UNCHANGED <<apiKey, analyzeVars, estVars, histVars, quickVars, clientVars>>

\* the outbound call of the r-th request settles and its handler runs to its
\* response
ConcResume(r) ==
    /\ requests[r].pc = "await"
    /\ \E reply \in ConcReplies :
       \E data \in (IF reply = "200" THEN ConcData ELSE {NoChoices}) :
        requests' = [requests EXCEPT ![r] =
            [@ EXCEPT !.reply = reply, !.data = data, !.pc = "done",
                      !.responses = Append(@,
                          IF requests[r].route = "server"
                          THEN ServerResponse(reply, data, CodeOf(r))
                          ELSE PartResponse(reply, data, CodeOf(r)))]]
    /\ UNCHANGED <<apiKey, analyzeVars, estVars, histVars, quickVars, clientVars>>

NextConc == \E r \in Requests : ConcStart(r) \/ ConcResume(r)

SpecConc == InitConc /\ [][NextConc]_vars

-----------------------------------------------------------------------------
(* The history of the browser page: saveToHistory and clearHistory *)

\* code.substring(0, n) of a run-length string
RECURSIVE SubstringRuns(_, _)
SubstringRuns(runs, n) ==
    IF runs = <<>> \/ n = 0 THEN <<>>
    ELSE IF Head(runs).n <= n
         THEN <<Head(runs)>> \o SubstringRuns(Tail(runs), n - Head(runs).n)
         ELSE <<Run(Head(runs).c, n)>>

\* the entry of one analysis: id is Date.now(), code the first 500 characters,
\* issueCount the length of result.issues (timestamp and fileName, not read
\* by saveToHistory or clearHistory, are left out)
HistoryItem(now, code, issueCount) ==
    [id |-> now, code |-> SubstringRuns(code.runs, HistoryCodeLen), issueCount |-> issueCount]

\* the list that takes the new entry at its end and keeps the last entries
PushCapped(list, item) ==
    LET l == Append(list, item)
    IN  IF Len(l) > HistoryCap THEN SubSeq(l, Len(l) - HistoryCap + 1, Len(l)) ELSE l

\* analysisHistory.unshift(item), then slice(0, 50) when longer than 50
UnshiftCapped(list, item) ==
    LET l == <<item>> \o list
    IN  IF Len(l) > HistoryCap THEN SubSeq(l, 1, HistoryCap) ELSE l

\* JSON.parse(localStorage.getItem('javaAnalysisHistory')) || []
StoredHistory == IF localStorage.has THEN localStorage.v ELSE <<>>

\* the list an earlier session stored: n entries, newest first
StoredAtStart(n) ==
    [i \in 1..n |-> HistoryItem(n - i + 1, Str(<<Run("o", 3)>>), 0)]

StoredLengths == {0, 1, HistoryCap - 1, HistoryCap}

HistCodes ==
    { Str(<<Run("a", 3)>>),
      Str(<<Run("a", HistoryCodeLen - 1), Run("b", 2)>>),
      Str(<<Run("a", MaxCodeLen)>>) }

HistIssueCounts == {0, 2}

\* the page is loaded: analysisHistory is read from the stored item
InitHist ==
    /\ apiKey = FALSE
    /\ upstream \in { [i \in 1..MaxAttempts |-> "200"] }
    /\ route = "none"
    /\ body = [code |-> NoCode, hasOptions |-> FALSE]
    /\ pc = "idle"
    /\ calls = 0
    /\ waits = 0
    /\ aiText = NoChoices
    /\ responses = <<>>
    /\ text = <<>>
    /\ cx = <<>>
    /\ ConcIdle
    /\ QuickIdle
    /\ ClientIdle
    /\ \E n \in StoredLengths :
        /\ localStorage = IF n = 0 THEN NoItem ELSE Item(StoredAtStart(n))
        /\ clock = n
    /\ analysisHistory = StoredHistory
    /\ saves = 0
    /\ savedCode = NoCode

\* the body of saveToHistory(code, result), called when the clock has
\* advanced by passed
SaveEntry(code, issueCount, passed) ==
    /\ clock' = clock + passed
    /\ analysisHistory' =
           UnshiftCapped(analysisHistory, HistoryItem(clock', code, issueCount))
    /\ savedCode' = code
    /\ localStorage' = Item(analysisHistory')
    /\ saves' = saves + 1

\* saveToHistory(code, result), some time after the previous call
saveToHistory ==
    /\ saves < MaxSaves
    /\ \E code \in HistCodes, issueCount \in HistIssueCounts, passed \in {0, 1} :
        SaveEntry(code, issueCount, passed)
    /\ UNCHANGED <<apiKey, analyzeVars, estVars, concVars, quickVars, clientVars>>

\* clearHistory(): the user answers the confirm dialog, shown only when the
\* list is not empty
clearHistory ==
    /\ \E confirm \in BOOLEAN :
        IF Len(analysisHistory) > 0 /\ confirm
        THEN /\ analysisHistory' = <<>>
             /\ localStorage' = NoItem
        ELSE UNCHANGED <<analysisHistory, localStorage>>
    /\ UNCHANGED <<clock, saves, savedCode>>
    /\ UNCHANGED <<apiKey, analyzeVars, estVars, concVars, quickVars, clientVars>>

NextHist == saveToHistory \/ clearHistory

SpecHist == InitHist /\ [][NextHist]_vars

-----------------------------------------------------------------------------
(* src/server.js: POST /api/analyze/quick, the upstream stream forwarded *)

QuickCodes == { NoCode, Str(<<>>), Str(<<Run("a", 1)>>) }

\* chunk.toString() of the upstream 'data' events
Chunks == {"c1", "c2"}
\* 'data: [DONE]\n\n' and 'data: {"error": "Stream error"}\n\n'
Done == "[DONE]"
StreamErrorMessage == "Stream error"

Data(chunk) == [type |-> "data", chunk |-> chunk]
End == [type |-> "end", chunk |-> ""]
Error == [type |-> "error", chunk |-> ""]

Emitted(type) == \E i \in 1..Len(stream) : stream[i].type = type

\* res.write(chunk): the chunk is sent, or the call comes after res.end()
Write(r, chunk) ==
    IF r.ends > 0 THEN [r EXCEPT !.lateWrites = @ + 1]
    ELSE [r EXCEPT !.chunks = Append(@, chunk)]

\* res.end()
EndResponse(r) == [r EXCEPT !.ends = @ + 1]

\* res.status(status).json(...)
Json(r, status) == [r EXCEPT !.json = status, !.ends = @ + 1]

\* the listeners of lines 391-405
OnData(r, chunk) == Write(r, chunk)
OnEnd(r) == EndResponse(Write(r, Done))
OnError(r) == EndResponse(Write(r, StreamErrorMessage))

InitQuick ==
    /\ apiKey \in BOOLEAN
    /\ upstream \in { [i \in 1..MaxAttempts |-> "200"] }
    /\ route = "none"
    /\ body = [code |-> NoCode, hasOptions |-> FALSE]
    /\ pc = "idle"
    /\ calls = 0
    /\ waits = 0
    /\ aiText = NoChoices
    /\ responses = <<>>
    /\ text = <<>>
    /\ cx = <<>>
    /\ ConcIdle
    /\ HistIdle
    /\ QuickIdle
    /\ ClientIdle

\* lines 345-389: the request arrives; without code it is answered 400,
\* otherwise the streaming call is made and the handler is suspended
QuickStart ==
    /\ quickPc = "idle"
    /\ \E code \in QuickCodes :
        IF Falsy(code)
        THEN /\ res' = Json(res, 400)
             /\ quickPc' = "done"
        ELSE /\ quickPc' = "await"
             /\ UNCHANGED res
    /\ UNCHANGED stream
    /\ UNCHANGED <<apiKey, analyzeVars, estVars, concVars, histVars, clientVars>>

\* lines 390-412: the call settles; resolved, the three listeners are
\* attached; rejected, the catch answers 500 as no header has been sent
QuickResume ==
    /\ quickPc = "await"
    /\ \E resolved \in BOOLEAN :
        IF resolved
        THEN /\ quickPc' = "streaming"
             /\ UNCHANGED res
        ELSE /\ res' = Json(res, 500)
             /\ quickPc' = "done"
    /\ UNCHANGED stream
    /\ UNCHANGED <<apiKey, analyzeVars, estVars, concVars, histVars, clientVars>>

\* the upstream stream emits 'data' (never after its 'end')
StreamData ==
    /\ quickPc = "streaming"
    /\ Len(stream) < MaxEvents
    /\ ~Emitted("end")
    /\ \E chunk \in Chunks :
        /\ stream' = Append(stream, Data(chunk))
        /\ res' = OnData(res, chunk)
    /\ UNCHANGED quickPc
    /\ UNCHANGED <<apiKey, analyzeVars, estVars, concVars, histVars, clientVars>>

\* the upstream stream emits 'end', once
StreamEnd ==
    /\ quickPc = "streaming"
    /\ Len(stream) < MaxEvents
    /\ ~Emitted("end")
    /\ stream' = Append(stream, End)
    /\ res' = OnEnd(res)
    /\ UNCHANGED quickPc
    /\ UNCHANGED <<apiKey, analyzeVars, estVars, concVars, histVars, clientVars>>

\* the upstream stream emits 'error', once
StreamError ==
    /\ quickPc = "streaming"
    /\ Len(stream) < MaxEvents
    /\ ~Emitted("error")
    /\ stream' = Append(stream, Error)
    /\ res' = OnError(res)
    /\ UNCHANGED quickPc
    /\ UNCHANGED <<apiKey, analyzeVars, estVars, concVars, histVars, clientVars>>

NextQuick ==
    \/ QuickStart
    \/ QuickResume
    \/ StreamData
    \/ StreamEnd
    \/ StreamError

SpecQuick == InitQuick /\ [][NextQuick]_vars

-----------------------------------------------------------------------------
(* The browser page: the analyse button and analyzeCode *)

\* codeInput.value when the button is clicked
ClientInputs ==
    { <<>>, <<Run(" ", 2)>>, <<Run(" ", 1), Run("a", 3), Run("\n", 1)>>,
      <<Run("a", HistoryCodeLen + 1)>> }

\* a page whose showLoading shows and hides the spinner only
showLoadingSpinnerOnly(isLoading) == [disabled |-> FALSE]

\* showLoading(isLoading): analyzeBtn.disabled = isLoading
showLoading(isLoading) == [disabled |-> isLoading]

\* how the awaited fetch settles: rejected, a response that is not ok, or ok
FetchOutcomes == {"rejected", "http_error", "ok"}
\* how the awaited response.json() and what follows it end: the body is not
\* JSON, result.success is falsy, displayResults throws, or the result is
\* displayed and saved
JsonOutcomes == {"invalid_json", "error_envelope", "render_threw", "success"}

Invocation(code) == [code |-> code, pc |-> "fetch", outcome |-> "pending"]
\* the invocation has run its finally block
Finished(inv, outcome) == [inv EXCEPT !.pc = "done", !.outcome = outcome]

\* lines 683, 814-838: a click on the enabled button calls analyzeCode; without
\* code it alerts and returns, otherwise the button is disabled and the request
\* is sent
ClickAnalyze ==
    /\ ~analyzeBtn.disabled
    /\ Len(invocations) < MaxClicks
    /\ \E value \in ClientInputs :
        LET code == Str(Trim(value))
        IN  IF Falsy(code)
            THEN UNCHANGED clientVars
            ELSE /\ analyzeBtn' = showLoading(TRUE)
                 /\ invocations' = Append(invocations, Invocation(code))
    /\ UNCHANGED <<apiKey, analyzeVars, estVars, concVars, histVars, quickVars>>

\* lines 838-851, 861-866: the fetch of a call settles; rejected or not
\* ok, the catch and the finally run; ok, the call awaits response.json()
FetchSettles ==
    /\ \E i \in 1..Len(invocations), outcome \in FetchOutcomes :
        /\ invocations[i].pc = "fetch"
        /\ IF outcome = "ok"
           THEN /\ invocations' = [invocations EXCEPT ![i].pc = "json"]
                /\ UNCHANGED analyzeBtn
           ELSE /\ invocations' = [invocations EXCEPT ![i] = Finished(@, outcome)]
                /\ analyzeBtn' = showLoading(FALSE)
    /\ UNCHANGED <<apiKey, analyzeVars, estVars, concVars, histVars, quickVars>>

\* lines 853-866: response.json() of a call settles; a success is
\* displayed and saved to the history; every path ends in the finally
JsonSettles ==
    /\ \E i \in 1..Len(invocations), outcome \in JsonOutcomes :
        /\ invocations[i].pc = "json"
        /\ invocations' = [invocations EXCEPT ![i] = Finished(@, outcome)]
        /\ IF outcome = "success"
           THEN \E issueCount \in HistIssueCounts, passed \in {0, 1} :
                    SaveEntry(invocations[i].code, issueCount, passed)
           ELSE UNCHANGED histVars
    /\ analyzeBtn' = showLoading(FALSE)
    /\ UNCHANGED <<apiKey, analyzeVars, estVars, concVars, quickVars>>

NextClient ==
    \/ ClickAnalyze
    \/ FetchSettles
    \/ JsonSettles

\* the page is loaded, then clicks and settlements in any order
SpecClient == InitHist /\ [][NextClient]_vars

-----------------------------------------------------------------------------
(* Properties *)

Answered == pc = "done" /\ Len(responses) = 1
Answer == responses[1]
ValidCode(code) == ~IsEmptyCode(code) /\ ~IsTooLong(code)

\* the reply text can be parsed neither as a whole nor by substring extraction
Unparsable(s) == ~JsonParses(s) /\ ~(JsonMatch(s).found /\ JsonParses(JsonMatch(s).str))

\* C1: a successful response of /api/analyze or /api/analyze/demo to a valid
\* code carries a summary whose total is the sum of the four severity counts
\* and the length of issues.
C1_SummaryMatchesIssues ==
    (Answered /\ route \in Routes /\ ValidCode(body.code) /\ Answer.success) =>
        /\ Answer.data.isObject /\ Answer.data.hasSummary /\ Answer.data.hasIssues
        /\ Answer.data.summary.total
              = Answer.data.summary.critical + Answer.data.summary.high
                + Answer.data.summary.medium + Answer.data.summary.low
        /\ Answer.data.summary.total = Len(Answer.data.issues)

\* C2: when the model text cannot be parsed as JSON, directly or by substring
\* extraction, /api/analyze answers success with exactly one issue, of severity
\* low, whose description is the first ExcerptLen characters of the raw text.
C2_ParseFailureRecovered ==
    (Answered /\ route \in Analyze /\ calls >= 1 /\ upstream[calls] = "200"
        /\ aiText.hasChoices /\ Unparsable(aiText.content)) =>
        /\ Answer.success
        /\ Len(Answer.data.issues) = 1
        /\ Answer.data.issues[1].severity = "low"
        /\ Answer.data.issues[1].description = Substring0(aiText.content, ExcerptLen)

\* C3: when the upstream answers 429 to the first N calls, N below the attempt
\* budget, and 200 to the next, the request ends after N + 1 calls and N waits
\* with the response built from that 200 reply.
C3_RetryAfterRateLimit ==
    \A N \in 0..(MaxAttempts - 1) :
        (pc = "done" /\ route \in Analyze /\ calls >= 1
            /\ (\A i \in 1..N : upstream[i] = "429") /\ upstream[N + 1] = "200") =>
            /\ calls = N + 1
            /\ waits = N
            /\ Len(responses) = 1
            /\ Answer = IF route = "server" THEN ServerResponse("200", aiText, body.code)
                        ELSE PartResponse("200", aiText, body.code)

\* replies that are neither a rate limit, a server-side failure nor a
\* connectivity failure
NonRetryable == {"401", "403"}

\* C4: when the upstream answers the first call with 401 or another
\* non-retryable error, the request makes exactly one outbound call, takes no
\* wait, and is answered with a failure.
C4_NoRetryOnAuthFailure ==
    (route \in Analyze /\ calls >= 1 /\ upstream[1] \in NonRetryable) =>
        /\ calls = 1
        /\ waits = 0
        /\ pc = "done" => (Len(responses) = 1 /\ ~Answer.success /\ Answer.status >= 400)

C4_Witness ==
    /\ Answered /\ route \in Analyze /\ calls = 1
    /\ upstream[1] = "401" /\ upstream[2] = "200"
    /\ ~Answer.success

\* C5: a code of MaxCodeLen + 1 characters is answered with a 4xx status,
\* whatever its characters and whether or not the API key is set, and no
\* outbound call is made.
C5_OversizedRejected ==
    (Answered /\ route \in Analyze /\ body.code.defined
        /\ StrLen(body.code.runs) = MaxCodeLen + 1) =>
        /\ Answer.status \in 400..499
        /\ calls = 0

\* the statuses the failure classes of a request allow
FailureStatuses ==
    (IF IsEmptyCode(body.code) \/ IsTooLong(body.code) THEN {400} ELSE {})
    \cup (IF ~apiKey THEN {401, 503} ELSE {})
    \cup (IF calls >= 1 /\ upstream[calls] = "401" THEN {401, 503} ELSE {})
    \cup (IF calls >= 1 /\ upstream[calls] = "429" THEN {429} ELSE {})
    \cup (IF calls >= 1 /\ upstream[calls] = "timeout" THEN {504} ELSE {})

\* C6: the status of a failed /api/analyze response is that of its failure
\* class: 400 for empty or oversized input, 401 or 503 for a missing or invalid
\* key, 429 for an upstream rate limit, 504 for a timeout, 500 for the rest.
C6_StatusByFailureClass ==
    (Answered /\ route \in Analyze /\ ~Answer.success) =>
        Answer.status \in (IF FailureStatuses = {} THEN {500} ELSE FailureStatuses)

\* C7 as stated: /api/analyze/demo answers every body, missing or empty code
\* included, with success and a synthetic result, without an outbound call.
C7_DemoAlwaysSucceeds ==
    (pc = "done" /\ route = "demo") =>
        /\ Len(responses) = 1 /\ Answer.success /\ Answer.hasData
        /\ calls = 0

\* C7 as amended: /api/analyze/demo never makes an outbound call; it answers
\* success with the synthetic result for every code that is a non-empty string
\* (whitespace included), and 400 without success for a missing or empty code.
C7_DemoSucceedsOnNonEmptyCode ==
    (pc = "done" /\ route = "demo") =>
        /\ Len(responses) = 1
        /\ calls = 0
        /\ ~Falsy(body.code) =>
              (Answer.success /\ Answer.status = 200 /\ Answer.hasData /\ Answer.data = DemoData(body.code))
        /\ Falsy(body.code) => (~Answer.success /\ Answer.status = 400)

C7_Witness ==
    /\ Answered /\ route = "demo"
    /\ body.code.defined /\ StrLen(body.code.runs) > 0 /\ StrLen(Trim(body.code.runs)) = 0
    /\ Answer.success

\* C8: without an API key a valid request to /api/analyze is answered with a
\* synthetic result instead of an error, and no outbound call is made.
C8_DemoFallbackWithoutKey ==
    (Answered /\ route \in Analyze /\ ~apiKey /\ ValidCode(body.code)) =>
        /\ Answer.success /\ Answer.hasData
        /\ calls = 0

\* C10: a missing, empty or whitespace-only code is answered with status 400
\* and an error envelope, whether or not the API key is set, and no outbound
\* call is made.
C10_EmptyCodeRejected ==
    (Answered /\ route \in Analyze /\ IsEmptyCode(body.code)) =>
        /\ Answer.status = 400 /\ ~Answer.success /\ Answer.error # ""
        /\ calls = 0

-----------------------------------------------------------------------------
(* Properties of estimateCyclomaticComplexity *)

\* positions where word w is followed by optional whitespace and "("
CallLike(s, w) ==
    { i \in 1..Len(s) :
        /\ i + Len(w) - 1 <= Len(s)
        /\ SubSeq(s, i, i + Len(w) - 1) = w
        /\ \E k \in (i + Len(w))..Len(s) :
              /\ s[k] = "("
              /\ \A j \in (i + Len(w))..(k - 1) : s[j] \in Whitespace }

\* positions where "case" is followed by whitespace
CaseLike(s) ==
    { i \in 1..Len(s) :
        /\ i + 4 <= Len(s)
        /\ SubSeq(s, i, i + 3) = <<"c", "a", "s", "e">>
        /\ s[i + 4] \in Whitespace }

\* positions where a pair cc starts, pairs being taken left to right inside
\* each run of c: an even number of c precede the pair in its run
PairLike(s, c) ==
    { i \in 1..(Len(s) - 1) :
        /\ s[i] = c /\ s[i + 1] = c
        /\ Cardinality({ j \in 1..(i - 1) : \A k \in j..(i - 1) : s[k] = c }) % 2 = 0 }

\* number of matches of the eight decision patterns in s
DecisionPoints(s) ==
    Cardinality(CallLike(s, <<"i", "f">>)) + Cardinality(CallLike(s, <<"f", "o", "r">>))
    + Cardinality(CallLike(s, <<"w", "h", "i", "l", "e">>))
    + Cardinality(CallLike(s, <<"c", "a", "t", "c", "h">>))
    + Cardinality(CaseLike(s))
    + Cardinality(PairLike(s, "&")) + Cardinality(PairLike(s, "|"))
    + Cardinality({ i \in 1..Len(s) : s[i] = "?" })

\* C9: every call of estimateCyclomaticComplexity on a text returns
\* min(50, 1 + number of matches of the decision patterns), a value of 1..50,
\* and two calls on the same text return the same value.
C9_ComplexityIsClampedCount ==
    \A k \in 1..Len(cx) :
        /\ cx[k] = Min(MaxComplexity, 1 + DecisionPoints(text))
        /\ cx[k] \in 1..MaxComplexity
        /\ cx[k] = cx[1]

C9_Witness ==
    /\ Len(cx) = 2
    /\ 1 + DecisionPoints(text) > MaxComplexity
    /\ cx[2] = MaxComplexity

-----------------------------------------------------------------------------
(* Properties of the outbound call sequence *)

\* a request that passes the input and credential checks
WellFormed == apiKey /\ ValidCode(body.code)

\* the response the handler of the request builds from a settled call
RouteResponse(reply, data) ==
    IF route = "server" THEN ServerResponse(reply, data, body.code)
    ELSE PartResponse(reply, data, body.code)

\* C11: options is optional: a request with valid code and no options field,
\* with the API key set, reaches the outbound call and is not failed for the
\* absent options.
C11_OptionsOptional ==
    (route \in Analyze /\ pc \in {"await", "done"} /\ WellFormed /\ ~body.hasOptions) =>
        /\ calls >= 1
        /\ pc = "done" => Answer.details # "type_error"

\* failures the retry policy repeats: rate limit, server-side, connectivity
Transient == {"500", "503", "timeout", "network"}
Retryable == Transient \cup {"429"}

\* C12: a request that passes the checks makes between 1 and MaxAttempts
\* outbound calls; when every attempt fails with a retryable error it makes
\* exactly MaxAttempts calls and is answered with the error of the last one.
C12_AttemptBudget ==
    (pc = "done" /\ route \in Analyze /\ WellFormed /\ body.hasOptions) =>
        /\ calls \in 1..MaxAttempts
        /\ (\A i \in 1..MaxAttempts : upstream[i] \in Retryable) =>
              /\ calls = MaxAttempts
              /\ Len(responses) = 1
              /\ Answer = RouteResponse(upstream[MaxAttempts], NoChoices)

\* C13: when the first N calls fail with a server-side or connectivity error
\* and attempts remain, each failure is followed by one backoff wait and a
\* retry, so a 200 reply to call N + 1 is reached after N waits and yields
\* the response built from it.
C13_BackoffOnTransient ==
    \A N \in 1..(MaxAttempts - 1) :
        (pc = "done" /\ route \in Analyze /\ calls >= 1
            /\ (\A i \in 1..N : upstream[i] \in Transient) /\ upstream[N + 1] = "200") =>
            /\ calls = N + 1
            /\ waits = N
            /\ Len(responses) = 1
            /\ Answer = RouteResponse("200", aiText)

-----------------------------------------------------------------------------
(* Properties of the normalizer *)

\* position of the first complete JSON object of a reply text
FirstObject(s) == CHOOSE i \in 1..Len(s) : s[i].t = "obj" /\ \A j \in 1..(i - 1) : s[j].t # "obj"

\* the result the handler of the request builds from a parsed JSON value
BuiltFrom(d) == IF route = "server" THEN enhanceAnalysisResult(d, body.code).doc ELSE d

\* C14: when the reply text is not JSON as a whole but contains a JSON object
\* with other text around it, further braces included, the result is built
\* from the first balanced object of the text.
C14_FirstBalancedObject ==
    (Answered /\ route \in Analyze /\ calls >= 1 /\ upstream[calls] = "200"
        /\ aiText.hasChoices /\ ~JsonParses(aiText.content)
        /\ (\E i \in 1..Len(aiText.content) : aiText.content[i].t = "obj")
        /\ (\A j \in 1..(FirstObject(aiText.content) - 1) : aiText.content[j].t # "open")
        /\ ~enhanceAnalysisResult(aiText.content[FirstObject(aiText.content)].doc, body.code).threw) =>
        /\ Answer.success
        /\ Answer.data = BuiltFrom(aiText.content[FirstObject(aiText.content)].doc)

\* the level an issue belongs to, compared without regard to case; an absent
\* severity is low
LevelOf(issue) ==
    IF issue.severity \in {"high", "HIGH"} THEN "high"
    ELSE IF issue.severity = "" THEN "low"
    ELSE issue.severity

\* C15: after enhanceAnalysisResult each severity count of the summary is the
\* number of issues of that level, and every issue is counted in exactly one
\* of the four levels.
C15_CountsPartitionIssues ==
    (Answered /\ route = "server" /\ Answer.success) =>
        LET d == Answer.data
            n(level) == Cardinality({ i \in 1..Len(d.issues) : LevelOf(d.issues[i]) = level })
        IN  /\ d.summary.critical = n("critical")
            /\ d.summary.high = n("high")
            /\ d.summary.medium = n("medium")
            /\ d.summary.low = n("low")
            /\ \A i \in 1..Len(d.issues) : LevelOf(d.issues[i]) \in {"critical", "high", "medium", "low"}

\* the JSON value a successful response of server.js was built from: the whole
\* reply text, or else the substring matched in it
SourceDoc ==
    IF JsonParses(aiText.content)
       /\ ~enhanceAnalysisResult(JsonParse(aiText.content), body.code).threw
    THEN JsonParse(aiText.content)
    ELSE JsonParse(JsonMatch(aiText.content).str)

\* number of newline-separated lines of a run-length string
LineCount(runs) ==
    1 + SumN([i \in 1..Len(runs) |-> IF runs[i].c = "\n" THEN runs[i].n ELSE 0], Len(runs))

\* a metrics field after the normalizer: present, the model's value when the
\* model supplied one, the local estimate otherwise
KeptOrFilled(supplied, field, estimate) ==
    /\ field.has
    /\ supplied.has => field.v = supplied.v
    /\ ~supplied.has => field.v = estimate

\* C16: after enhanceAnalysisResult the metrics have all four fields, with
\* maintainability and security within 0..100; a field the model supplied is
\* kept unchanged and an absent field is filled with its local estimate.
C16_MetricsBackfilled ==
    (Answered /\ route = "server" /\ Answer.success) =>
        LET src == SourceDoc.metrics
            out == Answer.data.metrics
            issues == Answer.data.issues
        IN  /\ KeptOrFilled(src.lines, out.lines, LineCount(body.code.runs))
            /\ KeptOrFilled(src.complexity, out.complexity,
                            Min(MaxComplexity, 1 + DecisionPoints(Chars(body.code.runs))))
            /\ KeptOrFilled(src.maintainability, out.maintainability,
                            Max(50, 100 - Min(5 * Answer.data.summary.total, 50)))
            /\ KeptOrFilled(src.security, out.security,
                            Max(0, 100 - 10 * Cardinality({ i \in 1..Len(issues) : issues[i].sec })))
            /\ out.maintainability.v \in 0..100
            /\ out.security.v \in 0..100

\* C19: every POST /api/analyze request receives exactly one response on every
\* path through the handler: nothing is sent before the handler has finished,
\* and a handler that has finished (rejected the request, or resumed after the
\* upstream call settled) has sent exactly one response.
C19_ExactlyOneResponse ==
    route \in Analyze =>
        /\ pc \in {"await", "done"}
        /\ pc = "await" => responses = <<>>
        /\ pc = "done" => Len(responses) = 1

\* a request answered on the substring-extraction path of server.js, its result
\* normalized a second time after the first attempt threw
C19_Witness ==
    /\ Answered
    /\ route = "server"
    /\ ~JsonParses(aiText.content)
    /\ JsonMatch(aiText.content).found
    /\ Answer.success

\* the response the r-th request gets when it is the only one: a function of
\* its body and of the reply to its own outbound call
SoloResponse(r) ==
    LET q == requests[r]
    IN  IF q.route = "server"
        THEN IF ServerPasses(apiKey, q.body) THEN ServerResponse(q.reply, q.data, q.body.code)
             ELSE ServerReject(apiKey, q.body)
        ELSE IF PartPasses(apiKey, q.body) THEN PartResponse(q.reply, q.data, q.body.code)
             ELSE PartReject(apiKey, q.body)

\* C17: under every interleaving of the in-flight requests each one receives
\* the response determined by its own body and its own upstream reply, and the
\* only state the invocations share, the API key, is never written.
C17_RequestsIndependent ==
    /\ [](\A r \in Requests :
            requests[r].pc = "done" => requests[r].responses = <<SoloResponse(r)>>)
    /\ [][apiKey' = apiKey]_vars

\* a later request with another code is answered successfully while an earlier
\* one is still suspended in its outbound call
C17_Witness ==
    /\ requests[1].pc = "await"
    /\ requests[2].pc = "done"
    /\ requests[2].reply = "200"
    /\ requests[2].responses[1].success
    /\ requests[1].body.code # requests[2].body.code

\* the i-th character of a run-length string
RECURSIVE CharAt(_, _)
CharAt(runs, i) ==
    IF i <= Head(runs).n THEN Head(runs).c ELSE CharAt(Tail(runs), i - Head(runs).n)

\* short is the first k characters of full
IsPrefix(short, full, k) ==
    /\ StrLen(short) = k
    /\ \A i \in 1..k : CharAt(short, i) = CharAt(full, i)

\* at most 50 entries, newest first, at most 500 characters of code each, and
\* the stored copy reads back as the list in memory
HistoryKept ==
    /\ Len(analysisHistory) <= HistoryCap
    /\ \A i \in 1..(Len(analysisHistory) - 1) :
           analysisHistory[i].id >= analysisHistory[i + 1].id
    /\ \A i \in 1..Len(analysisHistory) : StrLen(analysisHistory[i].code) <= HistoryCodeLen
    /\ StoredHistory = analysisHistory

\* a save puts the first 500 characters of the analysed code in front of the
\* earlier entries, which keep their order, and drops the entries beyond 50
SaveDropsOldest ==
    saves' = saves + 1 =>
        /\ Len(analysisHistory') = Min(Len(analysisHistory) + 1, HistoryCap)
        /\ \A i \in 2..Len(analysisHistory') : analysisHistory'[i] = analysisHistory[i - 1]
        /\ analysisHistory'[1].id = clock'
        /\ IsPrefix(analysisHistory'[1].code, savedCode'.runs,
                    Min(HistoryCodeLen, StrLen(savedCode'.runs)))

\* C18: after any sequence of saveToHistory and clearHistory calls from a stored
\* history of at most 50 entries, the history holds at most 50 entries, newest
\* first, each with at most the first 500 characters of its code; a save beyond
\* 50 drops the oldest entries; and the localStorage copy equals the list.
C18_HistoryCapped == []HistoryKept /\ [][SaveDropsOldest]_vars

\* a code longer than 500 characters has been saved to a full history, whose
\* oldest entry was dropped
C18_Witness ==
    /\ saves > 0
    /\ Len(analysisHistory) = HistoryCap
    /\ analysisHistory[HistoryCap].id > 1
    /\ analysisHistory[1].id = clock
    /\ StrLen(savedCode.runs) > HistoryCodeLen
    /\ StrLen(analysisHistory[1].code) = HistoryCodeLen

\* the chunks of the 'data' events of a sequence of stream events
DataChunks(events) ==
    LET data == SelectSeq(events, LAMBDA e : e.type = "data")
    IN  [i \in 1..Len(data) |-> data[i].chunk]

\* C20: for every order of the 'data', 'end' and 'error' events of the upstream
\* stream the chunks are written in the order they arrived, the response is
\* ended exactly once, and nothing is written to it after it has ended.
C20_StreamEndedOnce ==
    quickPc = "streaming" =>
        /\ SelectSeq(res.chunks, LAMBDA c : c \in Chunks) = DataChunks(stream)
        /\ res.ends = (IF Emitted("end") \/ Emitted("error") THEN 1 ELSE 0)
        /\ res.lateWrites = 0

\* the calls of analyzeCode whose request has not settled
InFlight == { i \in 1..Len(invocations) : invocations[i].pc # "done" }

\* at most one analysis in flight, the button disabled exactly while one is,
\* and as many entries saved as requests displayed as a success
OneAnalysisAtATime ==
    /\ Cardinality(InFlight) <= 1
    /\ analyzeBtn.disabled <=> InFlight # {}
    /\ saves = Cardinality({ i \in 1..Len(invocations) : invocations[i].outcome = "success" })

\* the history changes only in the step in which a request returns success,
\* and the new entry is that request's
SavedOnlyOnSuccess ==
    (analysisHistory' # analysisHistory \/ localStorage' # localStorage) =>
        \E i \in InFlight :
            /\ invocations[i].pc = "json"
            /\ invocations'[i].outcome = "success"
            /\ savedCode' = invocations[i].code
            /\ Len(analysisHistory') = Min(Len(analysisHistory) + 1, HistoryCap)

\* C21: in the browser page at most one analysis is in flight: the analyse
\* button is disabled from the start of the request until it has settled, it is
\* re-enabled afterwards whether the request succeeded, returned an error
\* envelope or threw, and the history gets an entry only for a success.
C21_OneAnalysisInFlight == []OneAnalysisAtATime /\ [][SavedOnlyOnSuccess]_vars

\* after a request that returned an error envelope the button was re-enabled
\* and a second analysis, started by a new click, is in flight
C21_Witness ==
    /\ Len(invocations) = 2
    /\ invocations[1].outcome = "error_envelope"
    /\ invocations[2].pc = "json"
    /\ analyzeBtn.disabled
    /\ saves = 0

=============================================================================
